---- MODULE Spec2Model ----
(***************************************************************************)
(* Model of the stream admission control (services.py, StreamService), of  *)
(* the detection schedule loop (app.py, async_face_detection_loop), of the *)
(* detection batch (services.py, AsyncFaceDetectionService) and of the     *)
(* cache-aside reads (services.py over cache.py) of StreamCameraSecurity.  *)
(*                                                                         *)
(* Request handlers run in threads with no lock around                     *)
(* StreamService.active_streams, so every handler is split at each access  *)
(* to shared state (the in-memory set, the Store).  Every Store operation  *)
(* raises while the Store is down (dbUp = FALSE); the handlers' except     *)
(* branches are part of the step that raises.                              *)
(***************************************************************************)
EXTENDS Integers, Sequences, FiniteSets, TLC

\* ---------------------------------------------------------------- bounds
NumThreads == 3         \* request threads running handlers concurrently
MaxCalls == 3           \* start_stream/stop_stream calls issued in one run
MaxTime == 1            \* the clock runs 0..MaxTime
MaxDetections == 2      \* rows the detections table can hold

\* ------------------------------------------------------ program constants
\* all are read from the environment (defaults 20, 20, 4); the model runs the
\* configuration MAX_CAMERAS_STREAM=2, MAX_CAMERAS_DETECTION=3, MAX_WORKERS=1
MaxStreams == 2         \* Config.MAX_CAMERAS_STREAM
MaxDetectionCameras == 3 \* Config.MAX_CAMERAS_DETECTION
MaxWorkers == 1         \* Config.MAX_WORKERS

Threads == 1..NumThreads
CamList == <<"c1", "c2", "c3">>
Cameras == {CamList[i] : i \in DOMAIN CamList}   \* rows of the cameras table
CamIds == Cameras \cup {"cX"}          \* "cX" is an id of no camera
NoTime == -1                           \* a NULL DateTime column
Time == 0..MaxTime
SchedIds == {"s1", "s2"}               \* schedule ids create_schedule can hand out
Durations == {0, 1, 121}               \* duration arguments
None == "None"                         \* Python's None in a result slot
Terminal == {"completed", "error", "cancelled"}
\* no row with this id in detection_schedules
NoSchedule == [status |-> "none", camera_ids |-> {}, duration |-> 0,
               start_time |-> NoTime, end_time |-> NoTime]

VARIABLES
    active_streams,   \* StreamService.active_streams (in-memory set)
    sessions,         \* stream_sessions table: per camera_id its rows in insertion order
    dbUp,             \* the Store answers (FALSE: every Store call raises)
    now,              \* datetime.utcnow() / time.time()
    pc,               \* per thread: the next statement of its handler
    op,               \* per thread: the handler of its current / last call
    cam,              \* per thread: camera_id argument
    result,           \* per thread: value returned by its last call: "Started" and "Stopped"
                      \* are the two (True, ...) returns, the others (False, ...)
    found,            \* per thread: active_sessions (stop_camera_stream local)
    fresh,            \* per thread: the add of its start call inserted the camera (took a slot)
    calls,            \* number of calls issued so far
    schedules,        \* detection_schedules table, by schedule id
    lpc,              \* per schedule: the next statement of its loop thread
    deadline,         \* per schedule: end_time local of async_face_detection_loop
    seen,             \* per schedule: schedule.status as last read at the top of a tick
    unknown,          \* per schedule: the camera ids of its request that were no row of
                      \* the cameras table when the request was handled
    task,             \* per schedule and camera: the per-camera task of the current batch
    expired,          \* per schedule: the timer of asyncio.wait_for has fired in this batch
    results,          \* per schedule: results (async_face_detection_loop local)
    orphans,          \* per schedule and camera: tasks a timed-out batch left running in
                      \* the executor
    wake,             \* per schedule: when the pending timer of its event loop fires
                      \* (wait_for's timeout, asyncio.sleep), where the clock is followed
    camerasTable,     \* cameras table: the ids of its rows
    detections,       \* detections table: camera_id of each row, in insertion order
    saved,            \* value returned by the last save_detection_result call
    cache,            \* Redis: per key the stored value <<v>>, or <<>> for no entry
    cacheUp,          \* the cache answers (FALSE: is_available is False or Redis raises)
    use_cache,        \* per thread: use_cache argument of its read
    per_page,         \* per thread: per_page argument of its get_detection_results call
    loaded,           \* per thread: the value its read loaded from the source, <<v>>
    got               \* per thread: the value its last read returned, <<v>>

streamVars == <<active_streams, sessions, pc, op, cam, result, found, fresh, calls>>
schedVars == <<schedules, lpc, deadline, seen, unknown>>
batchVars == <<task, expired, results, orphans, wake>>
tableVars == <<camerasTable, detections, saved>>
readVars == <<use_cache, per_page, loaded, got>>
\* what a start_camera_stream / stop_camera_stream statement leaves alone, the cache apart
otherVars == <<dbUp, now, schedVars, batchVars, tableVars, readVars, cacheUp>>
restVars == <<otherVars, cache>>
\* what a statement of the schedule loop leaves alone
loopRest == <<dbUp, now, streamVars, tableVars, readVars, cache, cacheUp>>
vars == <<active_streams, sessions, dbUp, now, pc, op, cam, result, found, fresh, calls,
          schedules, lpc, deadline, seen, unknown, task, expired, results, orphans, wake,
          camerasTable, detections, saved, cache, cacheUp, use_cache, per_page, loaded, got>>

\* -------------------------------------------------------------- helpers
\* StreamSession.query.filter_by(camera_id=c, status='active').all()
ActiveSessions(c) ==
    {i \in 1..Len(sessions[c]) : sessions[c][i].status = "active"}

\* StreamSession(camera_id=c, session_id=uuid4(), status='active'), a row of sessions[c]
NewSession == [status |-> "active", ended_at |-> NoTime]

\* return (success, message) from the handler: the thread becomes free and the
\* arguments of the call are gone; the returned value is kept
Return(t, r) ==
    /\ pc' = [pc EXCEPT ![t] = "idle"]
    /\ result' = [result EXCEPT ![t] = r]
    /\ op' = [op EXCEPT ![t] = "none"]
    /\ cam' = [cam EXCEPT ![t] = "none"]

Goto(t, label) ==
    /\ pc' = [pc EXCEPT ![t] = label]
    /\ UNCHANGED <<result, op, cam>>

\* the list a request names, in the order of the request
RECURSIVE IdListFrom(_, _)
IdListFrom(i, cams) ==
    IF i > Len(CamList) THEN <<>>
    ELSE IF CamList[i] \in cams THEN <<CamList[i]>> \o IdListFrom(i + 1, cams)
    ELSE IdListFrom(i + 1, cams)

IdList(cams) == IdListFrom(1, cams)

\* --------------------------------------------------------- CacheManager
\* key families: CAMERAS_ALL, ACTIVE_STREAMS, DETECTION_RESULTS page 1 with
\* DETECTION_COUNT (written, read and deleted by adjacent statements: one entry,
\* the count being the length of the listing).  A stored value is the JSON text of
\* a collection of camera ids, which json.loads gives back element for element.
CacheKeys == {"cameras", "streams", "results"}
NoCache == [k \in CacheKeys |-> <<>>]

\* CacheManager.get: None when not available or when Redis raises
CacheGet(k) == IF cacheUp THEN cache[k] ELSE <<>>

\* the cache after CacheManager.set(k, v): nothing stored when not available or
\* when Redis raises (returns False, never raises)
CacheSet(k, v) == IF cacheUp THEN [cache EXCEPT ![k] = <<v>>] ELSE cache

\* the cache after CacheManager.delete / delete_pattern of the keys ks: nothing
\* deleted when not available or when Redis raises (returns False / 0, never raises)
CacheDelete(ks) ==
    IF cacheUp THEN [k \in CacheKeys |-> IF k \in ks THEN <<>> ELSE cache[k]] ELSE cache

\* ----------------------------------------------------------------- Init
Init ==
    /\ active_streams = {}
    /\ sessions = [c \in CamIds |-> <<>>]
    /\ dbUp = TRUE
    /\ now = 0
    /\ pc = [t \in Threads |-> "idle"]
    /\ op = [t \in Threads |-> "none"]
    /\ cam = [t \in Threads |-> "none"]
    /\ result = [t \in Threads |-> "none"]
    /\ found = [t \in Threads |-> {}]
    /\ fresh = [t \in Threads |-> FALSE]
    /\ calls = 0
    /\ schedules = [s \in SchedIds |-> NoSchedule]
    /\ lpc = [s \in SchedIds |-> "none"]
    /\ deadline = [s \in SchedIds |-> NoTime]
    /\ seen = [s \in SchedIds |-> "none"]
    /\ unknown = [s \in SchedIds |-> {}]
    /\ task = [s \in SchedIds |-> [c \in Cameras |-> "none"]]
    /\ expired = [s \in SchedIds |-> FALSE]
    /\ results = [s \in SchedIds |-> <<>>]
    /\ orphans = [s \in SchedIds |-> [c \in Cameras |-> 0]]
    /\ wake = [s \in SchedIds |-> NoTime]
    /\ camerasTable = Cameras
    /\ detections = <<>>
    /\ saved = "none"
    /\ cache = NoCache
    /\ cacheUp = TRUE
    /\ use_cache = [t \in Threads |-> TRUE]
    /\ per_page = [t \in Threads |-> 0]
    /\ loaded = [t \in Threads |-> <<>>]
    /\ got = [t \in Threads |-> <<>>]

\* ---------------------------------------------------------- environment
\* the Store becomes unreachable / reachable again
StoreDown ==
    /\ dbUp
    /\ dbUp' = FALSE
    /\ UNCHANGED <<now, streamVars, schedVars, batchVars, tableVars, readVars, cache, cacheUp>>

StoreUp ==
    /\ ~dbUp
    /\ dbUp' = TRUE
    /\ UNCHANGED <<now, streamVars, schedVars, batchVars, tableVars, readVars, cache, cacheUp>>

Tick ==
    /\ now < MaxTime
    /\ now' = now + 1
    /\ UNCHANGED <<dbUp, streamVars, schedVars, batchVars, tableVars, readVars, cache, cacheUp>>

\* the server hands a request to a free worker thread; free threads hold no state of
\* a call and are interchangeable, so the lowest-numbered one is taken
Dispatched(t) ==
    /\ pc[t] = "idle"
    /\ \A u \in Threads : u < t => pc[u] # "idle"

\* ------------------------------------------- StreamService.start_camera_stream
\* a request thread enters start_camera_stream(c)
CallStart(t, c) ==
    /\ pc[t] = "idle"
    /\ calls < MaxCalls
    /\ calls' = calls + 1
    /\ op' = [op EXCEPT ![t] = "start"]
    /\ cam' = [cam EXCEPT ![t] = c]
    /\ pc' = [pc EXCEPT ![t] = "start_lookup"]
    /\ fresh' = [fresh EXCEPT ![t] = FALSE]
    /\ result' = [result EXCEPT ![t] = "running"]
    /\ UNCHANGED <<active_streams, sessions, found, restVars>>

\* camera = Camera.query.get(camera_id); if not camera: return False
StartLookup(t) ==
    /\ pc[t] = "start_lookup"
    /\ IF ~dbUp THEN Return(t, "SystemError")
       ELSE IF cam[t] \notin camerasTable THEN Return(t, "NotFound")
       ELSE Goto(t, "start_check_len")
    /\ UNCHANGED <<active_streams, sessions, found, fresh, calls, restVars>>

\* len(StreamService.active_streams) >= Config.MAX_CAMERAS_STREAM  (left operand of `and`)
StartCheckLen(t) ==
    /\ pc[t] = "start_check_len"
    /\ IF Cardinality(active_streams) >= MaxStreams
       THEN Goto(t, "start_check_in")
       ELSE Goto(t, "start_add")
    /\ UNCHANGED <<active_streams, sessions, found, fresh, calls, restVars>>

\* StartCheckIn without the exemption of line 191: at the cap every call is refused,
\* slot held or not
StartCheckIn_NoExemption(t) ==
    /\ pc[t] = "start_check_in"
    /\ Return(t, "AdmissionDenied")
    /\ UNCHANGED <<active_streams, sessions, found, fresh, calls, restVars>>

\* StartCheckIn with the reservation of line 195 moved before the membership test
StartCheckIn_ReserveFirst(t) ==
    /\ pc[t] = "start_check_in"
    /\ active_streams' = active_streams \cup {cam[t]}
    /\ IF cam[t] \notin active_streams
       THEN Return(t, "AdmissionDenied")
       ELSE Goto(t, "start_add")
    /\ UNCHANGED <<sessions, found, fresh, calls, restVars>>

\* ... and camera_id not in StreamService.active_streams: return False
StartCheckIn(t) ==
    /\ pc[t] = "start_check_in"
    /\ IF cam[t] \notin active_streams
       THEN Return(t, "AdmissionDenied")
       ELSE Goto(t, "start_add")
    /\ UNCHANGED <<active_streams, sessions, found, fresh, calls, restVars>>

\* StreamService.active_streams.add(camera_id)
StartAdd(t) ==
    /\ pc[t] = "start_add"
    /\ active_streams' = active_streams \cup {cam[t]}
    /\ fresh' = [fresh EXCEPT ![t] = cam[t] \notin active_streams]
    /\ Goto(t, "start_commit")
    /\ UNCHANGED <<sessions, found, calls, restVars>>

\* db.session.add(StreamSession(...)); db.session.commit();
\* StreamCache.invalidate_streams(); return True
\* except: db.session.rollback(); return False
StartCommit(t) ==
    /\ pc[t] = "start_commit"
    /\ IF dbUp
       THEN /\ sessions' = [sessions EXCEPT ![cam[t]] = Append(@, NewSession)]
            /\ cache' = CacheDelete({"streams"})
            /\ Return(t, "Started")
       ELSE /\ UNCHANGED <<sessions, cache>>
            /\ Return(t, "SystemError")
    /\ UNCHANGED <<active_streams, found, fresh, calls, otherVars>>

\* -------------------------------------------- StreamService.stop_camera_stream
CallStop(t, c) ==
    /\ pc[t] = "idle"
    /\ calls < MaxCalls
    /\ calls' = calls + 1
    /\ op' = [op EXCEPT ![t] = "stop"]
    /\ cam' = [cam EXCEPT ![t] = c]
    /\ pc' = [pc EXCEPT ![t] = "stop_discard"]
    /\ fresh' = [fresh EXCEPT ![t] = FALSE]
    /\ result' = [result EXCEPT ![t] = "running"]
    /\ UNCHANGED <<active_streams, sessions, found, restVars>>

\* StreamService.active_streams.discard(camera_id)
StopDiscard(t) ==
    /\ pc[t] = "stop_discard"
    /\ active_streams' = active_streams \ {cam[t]}
    /\ Goto(t, "stop_query")
    /\ UNCHANGED <<sessions, found, fresh, calls, restVars>>

\* active_sessions = StreamSession.query.filter_by(camera_id, status='active').all()
\* with no active session: no commit, invalidate, return True
StopQuery(t) ==
    /\ pc[t] = "stop_query"
    /\ IF ~dbUp
       THEN /\ Return(t, "SystemError")
            /\ UNCHANGED <<found, cache>>
       ELSE IF ActiveSessions(cam[t]) = {}
       THEN /\ cache' = CacheDelete({"streams"})
            /\ Return(t, "Stopped")
            /\ UNCHANGED found
       ELSE /\ found' = [found EXCEPT ![t] = ActiveSessions(cam[t])]
            /\ Goto(t, "stop_commit")
            /\ UNCHANGED cache
    /\ UNCHANGED <<active_streams, sessions, fresh, calls, otherVars>>

\* for session in active_sessions: session.ended_at = utcnow(); session.status = 'stopped'
\* db.session.commit(); StreamCache.invalidate_streams(); return True
\* except: db.session.rollback(); return False
StopCommit(t) ==
    /\ pc[t] = "stop_commit"
    /\ IF dbUp
       THEN /\ sessions' = [sessions EXCEPT ![cam[t]] =
                               [i \in 1..Len(@) |->
                                   IF i \in found[t]
                                   THEN [@[i] EXCEPT !.ended_at = now, !.status = "stopped"]
                                   ELSE @[i]]]
            /\ cache' = CacheDelete({"streams"})
            /\ Return(t, "Stopped")
       ELSE /\ UNCHANGED <<sessions, cache>>
            /\ Return(t, "SystemError")
    /\ found' = [found EXCEPT ![t] = {}]
    /\ UNCHANGED <<active_streams, fresh, calls, otherVars>>

\* ------------------------------------------------------ schedule_detection
\* CameraService.get_all_cameras() as schedule_detection calls it (use_cache=True):
\* the cached dict if it is truthy, else Camera.query.all(), {} if that raises
AllCamerasHit == CacheGet("cameras") # <<>> /\ CacheGet("cameras")[1] # {}

AllCameras ==
    IF AllCamerasHit THEN CacheGet("cameras")[1]
    ELSE IF dbUp THEN camerasTable
    ELSE {}

\* ... and the cache it leaves: on a miss the loaded dict is stored
AllCamerasFill ==
    IF ~AllCamerasHit /\ dbUp THEN CacheSet("cameras", camerasTable) ELSE cache

\* POST /api/schedule-detection with camera_ids cams and duration dur; s is the fresh
\* schedule id.  The checks of lines 325-334 answer 400 before anything is read; then
\* the ids are checked against get_all_cameras(); then the DetectionSchedule is
\* committed with status active (a raise answers 500) and the thread running
\* run_async_face_detection is started.
CreateSchedule(s, cams, dur) ==
    /\ schedules[s].status = "none"
    /\ IF \/ cams = {}
          \/ Cardinality(cams) > MaxDetectionCameras
          \/ dur < 1 \/ dur > 120
       THEN UNCHANGED <<schedules, lpc, unknown, cache>>
       ELSE /\ cache' = AllCamerasFill
            /\ IF cams \subseteq AllCameras /\ dbUp
               THEN /\ schedules' = [schedules EXCEPT ![s] =
                          [status |-> "active", camera_ids |-> cams, duration |-> dur,
                           start_time |-> now, end_time |-> NoTime]]
                    /\ lpc' = [lpc EXCEPT ![s] = "loop_init"]
                    /\ unknown' = [unknown EXCEPT ![s] = cams \ camerasTable]
               ELSE UNCHANGED <<schedules, lpc, unknown>>
    /\ UNCHANGED <<deadline, seen, batchVars, dbUp, now, streamVars, tableVars,
                   readVars, cacheUp>>

\* external cancellation: status := cancelled only if it is currently active
CancelSchedule(s) ==
    /\ dbUp
    /\ schedules[s].status = "active"
    /\ schedules' = [schedules EXCEPT ![s].status = "cancelled", ![s].end_time = now]
    /\ UNCHANGED <<lpc, deadline, seen, unknown, batchVars, loopRest>>

\* cancel_schedule(id) as a request: ids of the call are the schedule ids and "sX",
\* the id of no schedule
CancelIds == SchedIds \cup {"sX"}

CallCancel(t, id) ==
    /\ pc[t] = "idle"
    /\ calls < MaxCalls
    /\ calls' = calls + 1
    /\ op' = [op EXCEPT ![t] = "cancel"]
    /\ cam' = [cam EXCEPT ![t] = id]
    /\ pc' = [pc EXCEPT ![t] = "cancel"]
    /\ result' = [result EXCEPT ![t] = "running"]
    /\ UNCHANGED <<active_streams, sessions, found, fresh, restVars>>

\* what a step of cancel_schedule leaves alone besides the thread and the schedules
cancelRest == <<active_streams, sessions, found, fresh, calls, lpc, deadline, seen,
                unknown, batchVars, dbUp, now, tableVars, readVars, cache, cacheUp>>

\* CancelRun that writes cancelled whatever the status of the schedule is
CancelRun_Unconditional(t) ==
    /\ pc[t] = "cancel"
    /\ IF ~dbUp
       THEN Return(t, "SystemError") /\ UNCHANGED schedules
       ELSE IF cam[t] \notin SchedIds \/ schedules[cam[t]].status = "none"
       THEN Return(t, "NotFound") /\ UNCHANGED schedules
       ELSE /\ schedules' = [schedules EXCEPT ![cam[t]].status = "cancelled",
                                               ![cam[t]].end_time = now]
            /\ Return(t, "Cancelled")
    /\ UNCHANGED cancelRest

\* the conditional update: cancelled only if the stored status is active, else InvalidState
CancelRun(t) ==
    /\ pc[t] = "cancel"
    /\ IF ~dbUp
       THEN Return(t, "SystemError") /\ UNCHANGED schedules
       ELSE IF cam[t] \notin SchedIds \/ schedules[cam[t]].status = "none"
       THEN Return(t, "NotFound") /\ UNCHANGED schedules
       ELSE IF schedules[cam[t]].status = "active"
       THEN /\ schedules' = [schedules EXCEPT ![cam[t]].status = "cancelled",
                                               ![cam[t]].end_time = now]
            /\ Return(t, "Cancelled")
       ELSE Return(t, "InvalidState") /\ UNCHANGED schedules
    /\ UNCHANGED cancelRest

\* ----------------------------------------------- async_face_detection_loop
LGoto(s, label) == lpc' = [lpc EXCEPT ![s] = label]

\* end_time = time.time() + duration * 60   (the clock counts minutes)
LoopInit(s) ==
    /\ lpc[s] = "loop_init"
    /\ deadline' = [deadline EXCEPT ![s] = now + schedules[s].duration]
    /\ LGoto(s, "while")
    /\ UNCHANGED <<schedules, seen, unknown, batchVars, loopRest>>

\* while time.time() < end_time:
LoopWhile(s) ==
    /\ lpc[s] = "while"
    /\ IF now < deadline[s] THEN LGoto(s, "read") ELSE LGoto(s, "final_read")
    /\ UNCHANGED <<schedules, deadline, seen, unknown, batchVars, loopRest>>

\* LoopRead that reads the row and goes on to the batch whatever its status is
LoopRead_NoStatusTest(s) ==
    /\ lpc[s] = "read"
    /\ IF ~dbUp
       THEN /\ LGoto(s, "except")
            /\ UNCHANGED seen
       ELSE /\ seen' = [seen EXCEPT ![s] = schedules[s].status]
            /\ LGoto(s, "batch")
    /\ UNCHANGED <<schedules, deadline, unknown, batchVars, loopRest>>

\* schedule = DetectionSchedule.query.get(schedule_id)
\* if not schedule or schedule.status != 'active': break
LoopRead(s) ==
    /\ lpc[s] = "read"
    /\ IF ~dbUp
       THEN /\ LGoto(s, "except")
            /\ UNCHANGED seen
       ELSE /\ seen' = [seen EXCEPT ![s] = schedules[s].status]
            /\ IF schedules[s].status # "active"
               THEN LGoto(s, "final_read")
               ELSE LGoto(s, "batch")
    /\ UNCHANGED <<schedules, deadline, unknown, batchVars, loopRest>>

\* results = await process_multiple_cameras_async(...), taken as one step by the
\* specifications that do not look inside the batch
LoopBatch(s) ==
    /\ lpc[s] = "batch"
    /\ LGoto(s, "sleep")
    /\ UNCHANGED <<schedules, deadline, seen, unknown, batchVars, loopRest>>

\* for result in results: socketio.emit(...); await asyncio.sleep(2)
\* (results is dead after the for loop)
LoopSleep(s) ==
    /\ lpc[s] = "sleep"
    /\ results' = [results EXCEPT ![s] = <<>>]
    /\ LGoto(s, "while")
    /\ UNCHANGED <<schedules, deadline, seen, unknown, task, expired, orphans, wake,
                   loopRest>>

\* after the loop: schedule = DetectionSchedule.query.get(schedule_id)
LoopFinalRead(s) ==
    /\ lpc[s] = "final_read"
    /\ IF dbUp THEN LGoto(s, "final_commit") ELSE LGoto(s, "except")
    /\ UNCHANGED <<schedules, deadline, seen, unknown, batchVars, loopRest>>

\* LoopFinalCommit that writes the status and leaves end_time as it is
LoopFinalCommit_KeepsEndTime(s) ==
    /\ lpc[s] = "final_commit"
    /\ IF dbUp
       THEN /\ schedules' = [schedules EXCEPT ![s].status = "completed"]
            /\ LGoto(s, "exit")
       ELSE /\ UNCHANGED schedules
            /\ LGoto(s, "except")
    /\ UNCHANGED <<deadline, seen, unknown, batchVars, loopRest>>

\* schedule.status = 'completed'; schedule.end_time = utcnow(); db.session.commit()
LoopFinalCommit(s) ==
    /\ lpc[s] = "final_commit"
    /\ IF dbUp
       THEN /\ schedules' = [schedules EXCEPT ![s].status = "completed",
                                              ![s].end_time = now]
            /\ LGoto(s, "exit")
       ELSE /\ UNCHANGED schedules
            /\ LGoto(s, "except")
    /\ UNCHANGED <<deadline, seen, unknown, batchVars, loopRest>>

\* LoopExcept that writes error to every schedule that is active, not to its own only
LoopExcept_MarksEveryActive(s) ==
    /\ lpc[s] = "except"
    /\ IF dbUp
       THEN schedules' = [o \in SchedIds |->
                             IF o = s \/ schedules[o].status = "active"
                             THEN [schedules[o] EXCEPT !.status = "error"]
                             ELSE schedules[o]]
       ELSE UNCHANGED schedules
    /\ LGoto(s, "exit")
    /\ UNCHANGED <<deadline, seen, unknown, batchVars, loopRest>>

\* except Exception: try: schedule = query.get(id); schedule.status = 'error';
\* db.session.commit()  except: pass
LoopExcept(s) ==
    /\ lpc[s] = "except"
    /\ IF dbUp
       THEN schedules' = [schedules EXCEPT ![s].status = "error"]
       ELSE UNCHANGED schedules
    /\ LGoto(s, "exit")
    /\ UNCHANGED <<deadline, seen, unknown, batchVars, loopRest>>

\* ------------------------------------- the loop with its clock followed
\* The loop with the lengths of its waits followed.  The unit of the clock is the
\* length of the loop's sleep (2 s); the statements between the waits take no time,
\* and a batch is taken as one wait of any length up to its timeout.
SleepTime == 1               \* asyncio.sleep(2)
FaceDetectionTimeout == 15   \* Config.FACE_DETECTION_TIMEOUT = 30 (seconds)
UnitsPerMinute == 30         \* duration * 60 (seconds)

timedRest == <<schedules, seen, unknown, task, expired, results, orphans, loopRest>>

\* end_time = time.time() + duration * 60
TimedInit(s) ==
    /\ lpc[s] = "loop_init"
    /\ deadline' = [deadline EXCEPT ![s] = now + schedules[s].duration * UnitsPerMinute]
    /\ LGoto(s, "while")
    /\ UNCHANGED <<wake, timedRest>>

\* await process_multiple_cameras_async(...): wait_for arms its timeout
TimedBatchStart(s) ==
    /\ lpc[s] = "batch"
    /\ wake' = [wake EXCEPT ![s] = now + FaceDetectionTimeout]
    /\ LGoto(s, "batch_wait")
    /\ UNCHANGED <<deadline, timedRest>>

\* the batch returns: gather is done, or the timeout has fired (the clock does not
\* pass wake[s] while the loop waits)
TimedBatchReturn(s) ==
    /\ lpc[s] = "batch_wait"
    /\ wake' = [wake EXCEPT ![s] = NoTime]
    /\ LGoto(s, "sleep")
    /\ UNCHANGED <<deadline, timedRest>>

\* await asyncio.sleep(2) begins / ends
TimedSleep(s) ==
    /\ lpc[s] = "sleep"
    /\ wake' = [wake EXCEPT ![s] = now + SleepTime]
    /\ LGoto(s, "asleep")
    /\ UNCHANGED <<deadline, timedRest>>

TimedWake(s) ==
    /\ lpc[s] = "asleep"
    /\ now = wake[s]
    /\ wake' = [wake EXCEPT ![s] = NoTime]
    /\ LGoto(s, "while")
    /\ UNCHANGED <<deadline, timedRest>>

\* the clock goes on while a loop waits, and not past the time its timer fires
Advance ==
    /\ \E s \in SchedIds : wake[s] # NoTime
    /\ \A s \in SchedIds : wake[s] # NoTime => now < wake[s]
    /\ now' = now + 1
    /\ UNCHANGED <<dbUp, streamVars, schedVars, batchVars, tableVars, readVars, cache,
                   cacheUp>>

\* ----------------------------------- DetectionService.save_detection_result
\* SaveDetectionResult over a cache whose delete raises when it cannot answer: the
\* except branch is taken after the commit and returns False
SaveDetectionResult_CacheRaises(c) ==
    /\ Len(detections) < MaxDetections
    /\ IF dbUp
       THEN /\ detections' = Append(detections, c)
            /\ cache' = CacheDelete({"results"})
            /\ saved' = IF cacheUp THEN "True" ELSE "False"
       ELSE /\ UNCHANGED <<detections, cache>>
            /\ saved' = "False"

\* db.session.add(Detection(camera_id=c, ...)); db.session.commit();
\* DetectionCache.invalidate_detection_results(); return True
\* except: db.session.rollback(); return False
SaveDetectionResult(c) ==
    /\ Len(detections) < MaxDetections
    /\ IF dbUp
       THEN /\ detections' = Append(detections, c)
            /\ cache' = CacheDelete({"results"})
            /\ saved' = "True"
       ELSE /\ UNCHANGED <<detections, cache>>
            /\ saved' = "False"

\* ------------------------------------------------ AsyncFaceDetectionService
\* async_face_detection_loop builds its own AsyncFaceDetectionService (app.py:516),
\* so every schedule s has its own ThreadPoolExecutor of MaxWorkers threads.
Outcomes == {"detected", "nothing", "failed"}
Outstanding == {"queued", "running"}

RECURSIVE OrphansFrom(_, _)
OrphansFrom(s, i) ==
    IF i > Len(CamList) THEN 0 ELSE orphans[s][CamList[i]] + OrphansFrom(s, i + 1)

\* threads of the executor of s that are running _process_single_camera
Busy(s) == Cardinality({c \in Cameras : task[s][c] = "running"}) + OrphansFrom(s, 1)

NoTasks == [c \in Cameras |-> "none"]

\* what a step of the batch leaves alone besides lpc, the batch and what
\* save_detection_result writes
batchRest == <<dbUp, now, streamVars, readVars, cacheUp, camerasTable,
               schedules, deadline, seen, unknown, wake>>

\* BatchSubmit for a loop that does not await the batch: the next batch is handed
\* over while the previous one is still waited for
BatchSubmit_NotAwaited(s) ==
    /\ lpc[s] \in {"batch", "batch_wait"}
    /\ task' = [task EXCEPT ![s] =
                   [c \in Cameras |->
                       IF c \in schedules[s].camera_ids THEN "queued" ELSE "none"]]
    /\ expired' = [expired EXCEPT ![s] = FALSE]
    /\ LGoto(s, "batch_wait")
    /\ UNCHANGED <<results, orphans, detections, saved, cache, batchRest>>

\* process_multiple_cameras_async: one process_camera_frame_async per camera id, each
\* handing _process_single_camera to the executor; then wait_for(gather(...), timeout)
BatchSubmit(s) ==
    /\ lpc[s] = "batch"
    /\ task' = [task EXCEPT ![s] =
                   [c \in Cameras |->
                       IF c \in schedules[s].camera_ids THEN "queued" ELSE "none"]]
    /\ expired' = [expired EXCEPT ![s] = FALSE]
    /\ LGoto(s, "batch_wait")
    /\ UNCHANGED <<results, orphans, detections, saved, cache, batchRest>>

\* a free thread of the executor takes the queued call
TaskRun(s, c) ==
    /\ task[s][c] = "queued"
    /\ Busy(s) < MaxWorkers
    /\ task' = [task EXCEPT ![s][c] = "running"]
    /\ UNCHANGED <<lpc, expired, results, orphans, detections, saved, cache, batchRest>>

\* _process_single_camera returns: the detection dict after save_detection_result
\* ("detected"; the value save_detection_result returns is not looked at), None for
\* no frame or no face ("nothing"), None from its except branch ("failed")
TaskFinish(s, c, o) ==
    /\ task[s][c] = "running"
    /\ task' = [task EXCEPT ![s][c] = o]
    /\ IF o = "detected"
       THEN SaveDetectionResult(c)
       ELSE UNCHANGED <<detections, saved, cache>>
    /\ UNCHANGED <<lpc, expired, results, orphans, batchRest>>

\* the timer of asyncio.wait_for fires, Config.FACE_DETECTION_TIMEOUT seconds after
\* the wait began
BatchDeadline(s) ==
    /\ lpc[s] = "batch_wait"
    /\ ~expired[s]
    /\ expired' = [expired EXCEPT ![s] = TRUE]
    /\ UNCHANGED <<lpc, task, results, orphans, detections, saved, cache, batchRest>>

\* gather is done: successful_results = the dicts among the results, in input order
BatchGather(s) ==
    /\ lpc[s] = "batch_wait"
    /\ \A c \in Cameras : task[s][c] \notin Outstanding
    /\ LET IsDict(c) == task[s][c] = "detected"
       IN results' = [results EXCEPT ![s] =
                         SelectSeq(IdList(schedules[s].camera_ids), IsDict)]
    /\ task' = [task EXCEPT ![s] = NoTasks]
    /\ expired' = [expired EXCEPT ![s] = FALSE]
    /\ LGoto(s, "sleep")
    /\ UNCHANGED <<orphans, detections, saved, cache, batchRest>>

\* BatchTimedOut that also waits for the calls the executor is running
BatchTimedOut_JoinsRunning(s) ==
    /\ lpc[s] = "batch_wait"
    /\ expired[s]
    /\ \E c \in Cameras : task[s][c] \in Outstanding
    /\ \A c \in Cameras : task[s][c] # "running"
    /\ results' = [results EXCEPT ![s] = <<>>]
    /\ task' = [task EXCEPT ![s] = NoTasks]
    /\ expired' = [expired EXCEPT ![s] = FALSE]
    /\ LGoto(s, "sleep")
    /\ UNCHANGED <<orphans, detections, saved, cache, batchRest>>

\* BatchTimedOut that lets the TimeoutError reach the loop
BatchTimedOut_Raises(s) ==
    /\ lpc[s] = "batch_wait"
    /\ expired[s]
    /\ \E c \in Cameras : task[s][c] \in Outstanding
    /\ results' = [results EXCEPT ![s] = <<>>]
    /\ orphans' = [orphans EXCEPT ![s] =
                      [c \in Cameras |->
                          IF task[s][c] = "running" THEN @[c] + 1 ELSE @[c]]]
    /\ task' = [task EXCEPT ![s] = NoTasks]
    /\ expired' = [expired EXCEPT ![s] = FALSE]
    /\ LGoto(s, "except")
    /\ UNCHANGED <<detections, saved, cache, batchRest>>

\* except asyncio.TimeoutError: return []   wait_for has cancelled gather: a call
\* still queued in the executor is cancelled, a call a thread is running goes on
BatchTimedOut(s) ==
    /\ lpc[s] = "batch_wait"
    /\ expired[s]
    /\ \E c \in Cameras : task[s][c] \in Outstanding
    /\ results' = [results EXCEPT ![s] = <<>>]
    /\ orphans' = [orphans EXCEPT ![s] =
                      [c \in Cameras |->
                          IF task[s][c] = "running" THEN @[c] + 1 ELSE @[c]]]
    /\ task' = [task EXCEPT ![s] = NoTasks]
    /\ expired' = [expired EXCEPT ![s] = FALSE]
    /\ LGoto(s, "sleep")
    /\ UNCHANGED <<detections, saved, cache, batchRest>>

\* a call that a timed-out batch left running returns (det: with a detection, which
\* it has saved)
OrphanFinish(s, c, det) ==
    /\ orphans[s][c] > 0
    /\ orphans' = [orphans EXCEPT ![s][c] = @ - 1]
    /\ IF det
       THEN SaveDetectionResult(c)
       ELSE UNCHANGED <<detections, saved, cache>>
    /\ UNCHANGED <<lpc, task, expired, results, batchRest>>

\* a caller of save_detection_result other than a batch (POST /api/test-face-detection)
SaveCall(c) ==
    /\ SaveDetectionResult(c)
    /\ UNCHANGED <<dbUp, now, streamVars, schedVars, batchVars, readVars, camerasTable, cacheUp>>

\* ------------------------------------------------------------ cache-aside reads
\* what a statement of a read leaves alone besides pc, op, cam, result, its locals
\* and the cache
readRest == <<active_streams, sessions, found, fresh, calls, dbUp, now, schedVars,
              batchVars, tableVars, cacheUp, per_page>>

FirstStep(o) ==
    CASE o = "get_detections" -> "gd_cache"
      [] o = "get_cameras" -> "gc_cache"
      [] o = "get_streams" -> "gs_cache"

\* a request thread enters get_detection_results / get_all_cameras / get_active_streams
CallGet(t, o, uc) ==
    /\ pc[t] = "idle"
    /\ calls < MaxCalls
    /\ calls' = calls + 1
    /\ op' = [op EXCEPT ![t] = o]
    /\ pc' = [pc EXCEPT ![t] = FirstStep(o)]
    /\ result' = [result EXCEPT ![t] = "running"]
    /\ use_cache' = [use_cache EXCEPT ![t] = uc]
    /\ loaded' = [loaded EXCEPT ![t] = <<>>]
    /\ got' = [got EXCEPT ![t] = <<>>]
    /\ UNCHANGED <<active_streams, sessions, cam, found, fresh, dbUp, now, schedVars,
                   batchVars, tableVars, cache, cacheUp, per_page>>

\* return v from the read: r tells the return statement taken ("Hit": the cached
\* value, "Loaded": the value loaded from the source, "ReadError": the except branch)
ReadReturn(t, r, v) ==
    /\ Return(t, r)
    /\ got' = [got EXCEPT ![t] = <<v>>]
    /\ loaded' = [loaded EXCEPT ![t] = <<>>]

\* the read goes on to label, with its local loaded value l (<<>>: none yet)
ReadGoto(t, label, l) ==
    /\ Goto(t, label)
    /\ loaded' = [loaded EXCEPT ![t] = l]
    /\ UNCHANGED got

\* DetectionService.get_detection_results(page=1)
\* if use_cache: cached = DetectionCache.get...; if both are not None: return them
GdCache(t) ==
    /\ pc[t] = "gd_cache"
    /\ IF use_cache[t] /\ CacheGet("results") # <<>>
       THEN ReadReturn(t, "Hit", CacheGet("results")[1])
       ELSE ReadGoto(t, "gd_load", <<>>)
    /\ UNCHANGED <<use_cache, cache, readRest>>

\* pagination = Detection.query.order_by(...).paginate(...)   except: return [], 0
GdLoad(t) ==
    /\ pc[t] = "gd_load"
    /\ IF ~dbUp THEN ReadReturn(t, "ReadError", <<>>)
       ELSE IF use_cache[t] THEN ReadGoto(t, "gd_fill", <<detections>>)
       ELSE ReadReturn(t, "Loaded", detections)
    /\ UNCHANGED <<use_cache, cache, readRest>>

\* GdFill that answers with what the cache holds after the store
GdFill_ReturnsStored(t) ==
    /\ pc[t] = "gd_fill"
    /\ cache' = CacheSet("results", loaded[t][1])
    /\ ReadReturn(t, "Loaded", IF cacheUp THEN loaded[t][1] ELSE <<>>)
    /\ UNCHANGED <<use_cache, readRest>>

\* DetectionCache.set_detection_results(page, results); set_detection_count(total);
\* return results, total_count
GdFill(t) ==
    /\ pc[t] = "gd_fill"
    /\ cache' = CacheSet("results", loaded[t][1])
    /\ ReadReturn(t, "Loaded", loaded[t][1])
    /\ UNCHANGED <<use_cache, readRest>>

\* ---------------- get_detection_results(page=1, per_page) with its pagination
\* per_page arguments of the requests
PerPages == {1, 2}

\* Detection.query.order_by(Detection.timestamp.desc()).paginate(page=1, per_page=pp):
\* the pp newest rows, newest first, and pagination.total
PageOf(pp) ==
    LET n == Len(detections)
        m == IF pp < n THEN pp ELSE n
    IN [items |-> [i \in 1..m |-> detections[n + 1 - i]], total |-> n]

\* a request thread enters get_detection_results(1, pp) with the cache on
CallPage(t, pp) ==
    /\ pc[t] = "idle"
    /\ calls < MaxCalls
    /\ calls' = calls + 1
    /\ op' = [op EXCEPT ![t] = "get_page"]
    /\ pc' = [pc EXCEPT ![t] = "pd_cache"]
    /\ result' = [result EXCEPT ![t] = "running"]
    /\ use_cache' = [use_cache EXCEPT ![t] = TRUE]
    /\ per_page' = [per_page EXCEPT ![t] = pp]
    /\ loaded' = [loaded EXCEPT ![t] = <<>>]
    /\ got' = [got EXCEPT ![t] = <<>>]
    /\ UNCHANGED <<active_streams, sessions, cam, found, fresh, dbUp, now, schedVars,
                   batchVars, tableVars, cache, cacheUp>>

\* cached_results = DetectionCache.get_detection_results(page): the key is
\* "detections:results:page:{page}", whatever per_page is
PdCache(t) ==
    /\ pc[t] = "pd_cache"
    /\ IF CacheGet("results") # <<>>
       THEN ReadReturn(t, "Hit", CacheGet("results")[1])
       ELSE ReadGoto(t, "pd_load", <<>>)
    /\ UNCHANGED <<use_cache, cache, readRest>>

PdLoad(t) ==
    /\ pc[t] = "pd_load"
    /\ IF ~dbUp THEN ReadReturn(t, "ReadError", [items |-> <<>>, total |-> 0])
       ELSE ReadGoto(t, "pd_fill", <<PageOf(per_page[t])>>)
    /\ UNCHANGED <<use_cache, cache, readRest>>

\* DetectionCache.set_detection_results(page, results); set_detection_count(total)
PdFill(t) ==
    /\ pc[t] = "pd_fill"
    /\ cache' = CacheSet("results", loaded[t][1])
    /\ ReadReturn(t, "Loaded", loaded[t][1])
    /\ UNCHANGED <<use_cache, readRest>>

\* CameraService.get_all_cameras
\* if use_cache: cached = CameraCache.get_all_cameras(); if cached: return cached
GcCache(t) ==
    /\ pc[t] = "gc_cache"
    /\ IF use_cache[t] /\ AllCamerasHit
       THEN ReadReturn(t, "Hit", CacheGet("cameras")[1])
       ELSE ReadGoto(t, "gc_load", <<>>)
    /\ UNCHANGED <<use_cache, cache, readRest>>

\* cameras = Camera.query.all()   except: return {}
GcLoad(t) ==
    /\ pc[t] = "gc_load"
    /\ IF ~dbUp THEN ReadReturn(t, "ReadError", {})
       ELSE IF use_cache[t] THEN ReadGoto(t, "gc_fill", <<camerasTable>>)
       ELSE ReadReturn(t, "Loaded", camerasTable)
    /\ UNCHANGED <<use_cache, cache, readRest>>

\* CameraCache.set_all_cameras(cameras_dict, ...); return cameras_dict
GcFill(t) ==
    /\ pc[t] = "gc_fill"
    /\ cache' = CacheSet("cameras", loaded[t][1])
    /\ ReadReturn(t, "Loaded", loaded[t][1])
    /\ UNCHANGED <<use_cache, readRest>>

\* StreamService.get_active_streams
\* if use_cache: cached = StreamCache.get_active_streams(); if not None: return it
GsCache(t) ==
    /\ pc[t] = "gs_cache"
    /\ IF use_cache[t] /\ CacheGet("streams") # <<>>
       THEN ReadReturn(t, "Hit", CacheGet("streams")[1])
       ELSE ReadGoto(t, "gs_read", <<>>)
    /\ UNCHANGED <<use_cache, cache, readRest>>

\* streams_list = list(StreamService.active_streams)
GsRead(t) ==
    /\ pc[t] = "gs_read"
    /\ IF use_cache[t] THEN ReadGoto(t, "gs_fill", <<active_streams>>)
       ELSE ReadReturn(t, "Loaded", active_streams)
    /\ UNCHANGED <<use_cache, cache, readRest>>

\* StreamCache.set_active_streams(streams_list); return streams_list
GsFill(t) ==
    /\ pc[t] = "gs_fill"
    /\ cache' = CacheSet("streams", loaded[t][1])
    /\ ReadReturn(t, "Loaded", loaded[t][1])
    /\ UNCHANGED <<use_cache, readRest>>

\* ------------------------------------------------ CameraService.create_camera
\* camera_id = f"cam_{Camera.query.count() + 1}": CamList[n] stands for cam_n
NextCameraId == CamList[Cardinality(camerasTable) + 1]

\* create_camera with an ip that no camera has: the insert of a row whose id is the
\* primary key of an existing row raises at the commit (rollback, return False);
\* else the row is committed and CameraCache.invalidate_all() deletes the directory.
\* (Taken while the id is one the model has a name for, the Store answering.)
CreateCamera ==
    /\ dbUp
    /\ Cardinality(camerasTable) < Len(CamList)
    /\ IF NextCameraId \in camerasTable
       THEN UNCHANGED <<camerasTable, cache>>
       ELSE /\ camerasTable' = camerasTable \cup {NextCameraId}
            /\ cache' = CacheDelete({"cameras"})
    /\ UNCHANGED <<streamVars, dbUp, now, schedVars, batchVars, detections, saved,
                   readVars, cacheUp>>

\* ------------------------------------------------ CameraService.delete_camera
\* camera = Camera.query.get(c); stop_camera_stream(c); db.session.delete(camera)
\* (the camera's detections go with it: cascade='all, delete-orphan');
\* db.session.commit(); CameraCache.invalidate_camera(c); invalidate_streams().
\* Taken as one step with the Store answering throughout; with no such camera, or
\* with the lookup raising, it returns False and nothing is changed.
DeleteCamera(c) ==
    /\ dbUp
    /\ c \in camerasTable
    /\ active_streams' = active_streams \ {c}
    /\ sessions' = [sessions EXCEPT ![c] =
                       [i \in 1..Len(@) |->
                           IF @[i].status = "active"
                           THEN [@[i] EXCEPT !.ended_at = now, !.status = "stopped"]
                           ELSE @[i]]]
    /\ camerasTable' = camerasTable \ {c}
    /\ LET OfOther(d) == d # c
       IN detections' = SelectSeq(detections, OfOther)
    /\ cache' = CacheDelete({"cameras", "streams"})
    /\ UNCHANGED <<pc, op, cam, result, found, fresh, calls, dbUp, now, schedVars,
                   batchVars, saved, readVars, cacheUp>>

\* ------------------------------------------------------------------ Redis
\* Redis stops answering / answers again
CacheDown ==
    /\ cacheUp
    /\ cacheUp' = FALSE
    /\ UNCHANGED <<dbUp, now, streamVars, schedVars, batchVars, tableVars, readVars, cache>>

CacheUp ==
    /\ ~cacheUp
    /\ cacheUp' = TRUE
    /\ UNCHANGED <<dbUp, now, streamVars, schedVars, batchVars, tableVars, readVars, cache>>

\* the entry of key k reaches its expiry time (setex)
CacheExpire(k) ==
    /\ cache[k] # <<>>
    /\ cache' = [cache EXCEPT ![k] = <<>>]
    /\ UNCHANGED <<dbUp, now, streamVars, schedVars, batchVars, tableVars, readVars,
                   cacheUp>>

\* ----------------------------------------------------------------- Next
\* The handlers observe the Store and the clock only at these statements, so in
\* StreamNext the environment moves only right before one of them: a change made
\* earlier is indistinguishable from the same change made then.
AtStoreCall ==
    \E t \in Threads : pc[t] \in {"start_lookup", "start_commit", "stop_query", "stop_commit"}
AtClockRead == \E t \in Threads : pc[t] = "stop_commit"

StreamNext ==
    \/ \E t \in Threads, c \in CamIds : Dispatched(t) /\ CallStart(t, c)
    \/ \E t \in Threads : StartLookup(t)
    \/ \E t \in Threads : StartCheckLen(t)
    \/ \E t \in Threads : StartCheckIn(t)
    \/ \E t \in Threads : StartAdd(t)
    \/ \E t \in Threads : StartCommit(t)
    \/ \E t \in Threads, c \in CamIds : Dispatched(t) /\ CallStop(t, c)
    \/ \E t \in Threads : StopDiscard(t)
    \/ \E t \in Threads : StopQuery(t)
    \/ \E t \in Threads : StopCommit(t)
    \/ AtStoreCall /\ StoreDown
    \/ AtStoreCall /\ StoreUp
    \/ AtClockRead /\ Tick

\* Scenario A of the specification: every thread issues one start_camera_stream,
\* each for a different existing camera; no stop_camera_stream, the Store stays up.
BurstCall(t) ==
    /\ result[t] = "none"
    /\ t \in DOMAIN CamList
    /\ CallStart(t, CamList[t])

BurstNext ==
    \/ \E t \in Threads : BurstCall(t)
    \/ \E t \in Threads : StartLookup(t)
    \/ \E t \in Threads : StartCheckLen(t)
    \/ \E t \in Threads : StartCheckIn(t)
    \/ \E t \in Threads : StartAdd(t)
    \/ \E t \in Threads : StartCommit(t)

SchedNext ==
    \/ \E s \in SchedIds, cams \in SUBSET CamIds, dur \in Durations :
           CreateSchedule(s, cams, dur)
    \/ \E s \in SchedIds : CancelSchedule(s)
    \/ \E s \in SchedIds : LoopInit(s)
    \/ \E s \in SchedIds : LoopWhile(s)
    \/ \E s \in SchedIds : LoopRead(s)
    \/ \E s \in SchedIds : LoopBatch(s)
    \/ \E s \in SchedIds : LoopSleep(s)
    \/ \E s \in SchedIds : LoopFinalRead(s)
    \/ \E s \in SchedIds : LoopFinalCommit(s)
    \/ \E s \in SchedIds : LoopExcept(s)
    \/ StoreDown
    \/ StoreUp
    \/ Tick

\* one schedule, its batches looked into: the Store and the cache answer, the
\* schedule is neither cancelled nor does its duration run out
BatchNext ==
    \/ \E cams \in SUBSET CamIds, dur \in Durations : CreateSchedule("s1", cams, dur)
    \/ \E s \in SchedIds : LoopInit(s)
    \/ \E s \in SchedIds : LoopWhile(s)
    \/ \E s \in SchedIds : LoopRead(s)
    \/ \E s \in SchedIds : BatchSubmit(s)
    \/ \E s \in SchedIds, c \in Cameras : TaskRun(s, c)
    \/ \E s \in SchedIds, c \in Cameras, o \in Outcomes : TaskFinish(s, c, o)
    \/ \E s \in SchedIds : BatchDeadline(s)
    \/ \E s \in SchedIds : BatchGather(s)
    \/ \E s \in SchedIds : BatchTimedOut(s)
    \/ \E s \in SchedIds, c \in Cameras, det \in BOOLEAN : OrphanFinish(s, c, det)
    \/ \E s \in SchedIds : LoopSleep(s)

\* several schedules of one camera each, their batches looked into
PoolNext ==
    \/ \E s \in SchedIds, c \in Cameras : CreateSchedule(s, {c}, 1)
    \/ \E s \in SchedIds : LoopInit(s)
    \/ \E s \in SchedIds : LoopWhile(s)
    \/ \E s \in SchedIds : LoopRead(s)
    \/ \E s \in SchedIds : BatchSubmit(s)
    \/ \E s \in SchedIds, c \in Cameras : TaskRun(s, c)
    \/ \E s \in SchedIds, c \in Cameras, o \in Outcomes : TaskFinish(s, c, o)
    \/ \E s \in SchedIds : BatchDeadline(s)
    \/ \E s \in SchedIds : BatchGather(s)
    \/ \E s \in SchedIds : BatchTimedOut(s)
    \/ \E s \in SchedIds, c \in Cameras, det \in BOOLEAN : OrphanFinish(s, c, det)
    \/ \E s \in SchedIds : LoopSleep(s)

\* readers of the detection listing against writers of detections: the Store and
\* the cache answer throughout and no entry expires
ListingNext ==
    \/ \E t \in Threads : Dispatched(t) /\ CallGet(t, "get_detections", TRUE)
    \/ \E t \in Threads : GdCache(t)
    \/ \E t \in Threads : GdLoad(t)
    \/ \E t \in Threads : GdFill(t)
    \/ \E c \in Cameras : SaveCall(c)

\* the reads of the detection listing, cached and uncached, against its writers,
\* with the Store and the cache failing and recovering and the entry expiring
\* (the detections are of one camera: the listing does not depend on the camera id)
CacheNext ==
    \/ \E t \in Threads, uc \in BOOLEAN :
           Dispatched(t) /\ CallGet(t, "get_detections", uc)
    \/ \E t \in Threads : GdCache(t)
    \/ \E t \in Threads : GdLoad(t)
    \/ \E t \in Threads : GdFill(t)
    \/ SaveCall(CamList[1])
    \/ \E k \in CacheKeys : CacheExpire(k)
    \/ StoreDown
    \/ StoreUp
    \/ CacheDown
    \/ CacheUp

\* start_camera_stream and stop_camera_stream against get_active_streams: the Store
\* and the cache answer throughout and no entry expires
StreamCacheNext ==
    \/ \E t \in Threads, c \in CamIds : Dispatched(t) /\ CallStart(t, c)
    \/ \E t \in Threads : StartLookup(t)
    \/ \E t \in Threads : StartCheckLen(t)
    \/ \E t \in Threads : StartCheckIn(t)
    \/ \E t \in Threads : StartAdd(t)
    \/ \E t \in Threads : StartCommit(t)
    \/ \E t \in Threads, c \in CamIds : Dispatched(t) /\ CallStop(t, c)
    \/ \E t \in Threads : StopDiscard(t)
    \/ \E t \in Threads : StopQuery(t)
    \/ \E t \in Threads : StopCommit(t)
    \/ \E t \in Threads, uc \in BOOLEAN : Dispatched(t) /\ CallGet(t, "get_streams", uc)
    \/ \E t \in Threads : GsCache(t)
    \/ \E t \in Threads : GsRead(t)
    \/ \E t \in Threads : GsFill(t)

\* schedule_detection (one request accepted) against delete_camera and
\* get_all_cameras: no schedule loop step is taken, the Store and the cache answer
\* throughout and no entry expires
AdminNext ==
    \/ \E cams \in SUBSET CamIds, dur \in Durations : CreateSchedule("s1", cams, dur)
    \/ \E c \in Cameras : DeleteCamera(c)
    \/ \E t \in Threads : Dispatched(t) /\ CallGet(t, "get_cameras", TRUE)
    \/ \E t \in Threads : GcCache(t)
    \/ \E t \in Threads : GcLoad(t)
    \/ \E t \in Threads : GcFill(t)

\* one schedule run to its end: the batches looked into, the clock running, no
\* cancellation and the Store answering throughout (so no statement of the loop raises)
RunNext ==
    \/ \E cams \in SUBSET CamIds, dur \in Durations : CreateSchedule("s1", cams, dur)
    \/ \E s \in SchedIds : LoopInit(s)
    \/ \E s \in SchedIds : LoopWhile(s)
    \/ \E s \in SchedIds : LoopRead(s)
    \/ \E s \in SchedIds : BatchSubmit(s)
    \/ \E s \in SchedIds, c \in Cameras : TaskRun(s, c)
    \/ \E s \in SchedIds, c \in Cameras, o \in Outcomes : TaskFinish(s, c, o)
    \/ \E s \in SchedIds : BatchDeadline(s)
    \/ \E s \in SchedIds : BatchGather(s)
    \/ \E s \in SchedIds : BatchTimedOut(s)
    \/ \E s \in SchedIds, c \in Cameras, det \in BOOLEAN : OrphanFinish(s, c, det)
    \/ \E s \in SchedIds : LoopSleep(s)
    \/ \E s \in SchedIds : LoopFinalRead(s)
    \/ \E s \in SchedIds : LoopFinalCommit(s)
    \/ Tick

\* RunNext with the Store failing and recovering at any time
FaultNext ==
    \/ RunNext
    \/ \E s \in SchedIds : LoopExcept(s)
    \/ StoreDown
    \/ StoreUp

\* RunNext with the schedule cancelled from outside at any time
CancelNext ==
    \/ RunNext
    \/ \E s \in SchedIds : CancelSchedule(s)

\* FaultNext with cameras deleted and detections saved by a request at any time
RecordsNext ==
    \/ FaultNext
    \/ \E c \in Cameras : DeleteCamera(c)
    \/ \E c \in Cameras : SaveCall(c)

\* start_camera_stream and stop_camera_stream against delete_camera and
\* schedule_detection (one request of one camera id accepted, no schedule loop step
\* taken): the Store and the cache answer
DeleteNext ==
    \/ \E t \in Threads, c \in CamIds : Dispatched(t) /\ CallStart(t, c)
    \/ \E t \in Threads : StartLookup(t)
    \/ \E t \in Threads : StartCheckLen(t)
    \/ \E t \in Threads : StartCheckIn(t)
    \/ \E t \in Threads : StartAdd(t)
    \/ \E t \in Threads : StartCommit(t)
    \/ \E t \in Threads, c \in CamIds : Dispatched(t) /\ CallStop(t, c)
    \/ \E t \in Threads : StopDiscard(t)
    \/ \E t \in Threads : StopQuery(t)
    \/ \E t \in Threads : StopCommit(t)
    \/ \E c \in Cameras : DeleteCamera(c)
    \/ \E c \in CamIds : CreateSchedule("s1", {c}, 1)

\* two schedules of one camera each, their loops run to the end with the Store
\* failing and recovering at any time; the batch is taken as one step
IsolationNext ==
    \/ \E s \in SchedIds : CreateSchedule(s, {CamList[1]}, 1)
    \/ \E s \in SchedIds : LoopInit(s)
    \/ \E s \in SchedIds : LoopWhile(s)
    \/ \E s \in SchedIds : LoopRead(s)
    \/ \E s \in SchedIds : LoopBatch(s)
    \/ \E s \in SchedIds : LoopSleep(s)
    \/ \E s \in SchedIds : LoopFinalRead(s)
    \/ \E s \in SchedIds : LoopFinalCommit(s)
    \/ \E s \in SchedIds : LoopExcept(s)
    \/ StoreDown
    \/ StoreUp
    \/ Tick

\* cancel_schedule requests at any time against one schedule whose loop runs to the
\* end, the Store failing and recovering; the batch is taken as one step
CancelApiNext ==
    \/ CreateSchedule("s1", {CamList[1]}, 1)
    \/ \E s \in SchedIds : LoopInit(s)
    \/ \E s \in SchedIds : LoopWhile(s)
    \/ \E s \in SchedIds : LoopRead(s)
    \/ \E s \in SchedIds : LoopBatch(s)
    \/ \E s \in SchedIds : LoopSleep(s)
    \/ \E s \in SchedIds : LoopFinalRead(s)
    \/ \E s \in SchedIds : LoopFinalCommit(s)
    \/ \E s \in SchedIds : LoopExcept(s)
    \/ StoreDown
    \/ StoreUp
    \/ Tick
    \/ \E t \in Threads, id \in CancelIds : Dispatched(t) /\ CallCancel(t, id)
    \/ \E t \in Threads : CancelRun(t)

\* one schedule of one minute run to its end with the clock followed: no
\* cancellation, the Store answers
TimedNext ==
    \/ CreateSchedule("s1", {CamList[1]}, 1)
    \/ \E s \in SchedIds : TimedInit(s)
    \/ \E s \in SchedIds : LoopWhile(s)
    \/ \E s \in SchedIds : LoopRead(s)
    \/ \E s \in SchedIds : TimedBatchStart(s)
    \/ \E s \in SchedIds : TimedBatchReturn(s)
    \/ \E s \in SchedIds : TimedSleep(s)
    \/ \E s \in SchedIds : TimedWake(s)
    \/ \E s \in SchedIds : LoopFinalRead(s)
    \/ \E s \in SchedIds : LoopFinalCommit(s)
    \/ Advance

\* create_camera and delete_camera against get_all_cameras: the Store and the cache
\* answer throughout
CamerasNext ==
    \/ CreateCamera
    \/ \E c \in Cameras : DeleteCamera(c)
    \/ \E t \in Threads : Dispatched(t) /\ CallGet(t, "get_cameras", TRUE)
    \/ \E t \in Threads : GcCache(t)
    \/ \E t \in Threads : GcLoad(t)
    \/ \E t \in Threads : GcFill(t)

\* get_detection_results with different per_page against save_detection_result,
\* the detections saved between the reads, not during one; the Store and the cache
\* answer throughout and no entry expires
PagedNext ==
    \/ \E t \in Threads, pp \in PerPages : Dispatched(t) /\ CallPage(t, pp)
    \/ \E t \in Threads : PdCache(t)
    \/ \E t \in Threads : PdLoad(t)
    \/ \E t \in Threads : PdFill(t)
    \/ \E c \in Cameras : (\A t \in Threads : pc[t] = "idle") /\ SaveCall(c)

Next == StreamNext \/ SchedNext

Spec == Init /\ [][Next]_vars

SpecStream == Init /\ [][StreamNext]_vars

SpecSched == Init /\ [][SchedNext]_vars

SpecBurst == Init /\ [][BurstNext]_vars

SpecBatch == Init /\ [][BatchNext]_vars

\* the event loop of the schedule's thread runs a coroutine that is ready: the
\* return of wait_for is taken once it can be (no such promise for the executor's
\* calls, which may never return)
SpecBatchFair ==
    SpecBatch /\ \A s \in SchedIds : WF_vars(BatchGather(s) \/ BatchTimedOut(s))

SpecPool == Init /\ [][PoolNext]_vars

SpecRun == Init /\ [][RunNext]_vars

SpecFault == Init /\ [][FaultNext]_vars

SpecCancel == Init /\ [][CancelNext]_vars

SpecRecords == Init /\ [][RecordsNext]_vars

SpecDelete == Init /\ [][DeleteNext]_vars

SpecIsolation == Init /\ [][IsolationNext]_vars

SpecCancelApi == Init /\ [][CancelApiNext]_vars

SpecTimed == Init /\ [][TimedNext]_vars

SpecCameras == Init /\ [][CamerasNext]_vars

SpecPaged == Init /\ [][PagedNext]_vars

\* run_until_complete drives the loop coroutine: a statement that can run is run,
\* wait_for returns once it can, its timer fires, asyncio.sleep(2) ends, and the clock
\* goes on.  The executor's calls get no such promise: they may never return.
SpecRunFair ==
    /\ SpecRun
    /\ WF_vars(Tick)
    /\ \A s \in SchedIds :
           /\ WF_vars(LoopInit(s)) /\ WF_vars(LoopWhile(s)) /\ WF_vars(LoopRead(s))
           /\ WF_vars(BatchSubmit(s)) /\ WF_vars(BatchDeadline(s))
           /\ WF_vars(BatchGather(s) \/ BatchTimedOut(s))
           /\ WF_vars(LoopSleep(s))
           /\ WF_vars(LoopFinalRead(s)) /\ WF_vars(LoopFinalCommit(s))

SpecListing == Init /\ [][ListingNext]_vars

SpecCache == Init /\ [][CacheNext]_vars

SpecStreamCache == Init /\ [][StreamCacheNext]_vars

SpecAdmin == Init /\ [][AdminNext]_vars

\* ================================================================ claims
InStart(t) == op[t] = "start" /\ pc[t] # "idle"
InStop(t) == op[t] = "stop" /\ pc[t] # "idle"
Returns(t) == pc[t] # "idle" /\ pc'[t] = "idle"
Quiescent == \A t \in Threads : pc[t] = "idle"
Refusals == {"NotFound", "AdmissionDenied"}

\* C1: under any interleaving of start_stream and stop_stream calls the number of
\* cameras in the active-stream set is at most MaxStreams and at least zero.
C1_ActiveCountWithinCap ==
    /\ Cardinality(active_streams) <= MaxStreams
    /\ Cardinality(active_streams) >= 0

\* C2: N concurrent start_stream calls on N distinct existing cameras with cap C < N,
\* from an empty active set and without stop_stream: once all have returned, exactly C
\* returned success and the other N - C were refused for capacity.
C2_ExactlyCapAdmitted ==
    (\A t \in Threads : result[t] \notin {"none", "running"})
        => /\ Cardinality({t \in Threads : result[t] = "Started"}) = MaxStreams
           /\ Cardinality({t \in Threads : result[t] = "AdmissionDenied"})
                  = NumThreads - MaxStreams

\* C3: every terminal schedule status is a sink: once the stored status of a
\* DetectionSchedule is completed, error or cancelled it is never written to a
\* different status (the loop's terminal write takes effect only from active).
C3_TerminalStatusIsSink ==
    [][\A s \in SchedIds :
          schedules[s].status \in Terminal
              => schedules'[s].status = schedules[s].status]_vars

\* C4: once the loop has re-read the schedule at the top of a tick and found it no
\* longer active, nothing writes the schedule's status or end_time again; so a
\* schedule that was cancelled is never written to completed.
C4_NoWriteAfterCancelObserved ==
    [][\A s \in SchedIds :
          /\ (seen[s] \in Terminal
                 => /\ schedules'[s].status = schedules[s].status
                    /\ schedules'[s].end_time = schedules[s].end_time)
          /\ (schedules[s].status = "cancelled"
                 => schedules'[s].status # "completed")]_vars

\* C5: every camera has at most one StreamSession with status active.
C5_OneActiveSessionPerCamera ==
    \A c \in CamIds : Cardinality(ActiveSessions(c)) <= 1

\* the call of t is a start_stream on a camera that holds a slot: up to its add the
\* camera is in the active-stream set, and its add inserted nothing
OnHeldCamera(t) ==
    /\ InStart(t)
    /\ IF pc[t] = "start_commit" THEN ~fresh[t] ELSE cam[t] \in active_streams

C7_RefusedStartChangesNothing ==
    [][\A t \in Threads :
          InStart(t) =>
              /\ (Returns(t) /\ result'[t] \in Refusals
                      => pc[t] \in {"start_lookup", "start_check_in"})
              /\ (pc[t] \in {"start_lookup", "start_check_len", "start_check_in"}
                  /\ pc'[t] # pc[t]
                      => active_streams' = active_streams /\ sessions' = sessions)]_vars

\* C7 witness: with the active set at the cap, a call for a camera without a slot
\* has returned AdmissionDenied.
C7_Witness ==
    \E t \in Threads :
        /\ pc[t] = "idle" /\ result[t] = "AdmissionDenied"
        /\ Cardinality(active_streams) = MaxStreams

\* C8: whenever no start_stream or stop_stream call is in progress, a camera is in the
\* active-stream set if and only if it has a StreamSession with status active.
C8_SlotIffActiveSession ==
    Quiescent => \A c \in CamIds : (c \in active_streams) <=> (ActiveSessions(c) # {})

\* C9: stop_stream returns success in every state and for every camera id, and when it
\* returns the camera holds no slot and has no StreamSession with status active.
C9_StopAlwaysSucceeds ==
    [][\A t \in Threads :
          (InStop(t) /\ Returns(t)) =>
              /\ result'[t] = "Stopped"
              /\ cam[t] \notin active_streams'
              /\ \A i \in 1..Len(sessions'[cam[t]]) :
                     sessions'[cam[t]][i].status # "active"]_vars

\* C10: stop_stream twice on the same camera closes its StreamSession once: a session
\* that one stop_stream call has closed (status stopped, ended_at set) is not written
\* again by the other call.
C10_StopTwiceClosesOnce ==
    [][\A c \in CamIds : \A i \in 1..Len(sessions[c]) :
          sessions[c][i].status = "stopped" => sessions'[c][i] = sessions[c][i]]_vars

\* wait_for returns to process_multiple_cameras_async, which returns to the loop
BatchReturns(s) == lpc[s] = "batch_wait" /\ lpc'[s] = "sleep"

\* the detection of camera c is in the list the batch of s returns
Reported(s, c) == \E i \in 1..Len(results'[s]) : results'[s][i] = c

\* C11: the list a batch returns has one entry per camera id of its input, in input
\* order: the i-th entry is the detection of the i-th camera id, or None.
C11_BatchResultAligned ==
    [][\A s \in SchedIds :
          BatchReturns(s) =>
              LET ids == IdList(schedules[s].camera_ids)
              IN /\ Len(results'[s]) = Len(ids)
                 /\ \A i \in 1..Len(ids) :
                        results'[s][i] =
                            IF task[s][ids[i]] = "detected" THEN ids[i] ELSE None]_vars

\* C12: when the capture or detection of one camera of a batch has failed, the batch
\* still returns a list, and every other camera of the batch that produced a
\* detection has it in that list.
C12_FailureIsIsolated ==
    [][\A s \in SchedIds :
          (BatchReturns(s) /\ \E f \in Cameras : task[s][f] = "failed") =>
              \A c \in Cameras : task[s][c] = "detected" => Reported(s, c)]_vars

\* C13: when the batch deadline fires with tasks still outstanding, every task of the
\* batch that completed with a detection before the deadline is reported in the list
\* the batch returns.
C13_DeadlineKeepsCompleted ==
    [][\A s \in SchedIds :
          (BatchReturns(s) /\ expired[s] /\ \E o \in Cameras : task[s][o] \in Outstanding) =>
              \A c \in Cameras : task[s][c] = "detected" => Reported(s, c)]_vars

\* C14: once the batch timeout has elapsed the batch returns: it does not go on
\* waiting for a per-camera task that has not finished, even if that task never does.
C14_BatchReturnsAtDeadline ==
    \A s \in SchedIds : (lpc[s] = "batch_wait" /\ expired[s]) ~> (lpc[s] # "batch_wait")

\* C14 witness: a batch has returned at its deadline and left behind a call that the
\* executor is still running.
C14_Witness ==
    \E s \in SchedIds : lpc[s] = "sleep" /\ \E c \in Cameras : orphans[s][c] > 0

RECURSIVE BusyOver(_)
BusyOver(S) ==
    IF S = {} THEN 0 ELSE LET s == CHOOSE x \in S : TRUE IN Busy(s) + BusyOver(S \ {s})

\* C15: at any instant the number of per-camera detection tasks executing, summed
\* over all schedules, is at most MaxWorkers.
C15_SharedPoolBound == BusyOver(SchedIds) <= MaxWorkers

\* C16: a get_detection_results read served from the cache returns the listing with
\* every detection that save_detection_result has committed (and invalidated for):
\* the cached listing it returns is the listing of the Store.
C16_NoStaleListingAfterSave ==
    [][\A t \in Threads :
          (pc[t] = "gd_cache" /\ Returns(t)) => got'[t] = <<detections>>]_vars

\* what get_active_streams() returns when called in this state
ActiveStreamsRead ==
    IF CacheGet("streams") # <<>> THEN CacheGet("streams")[1] ELSE active_streams

\* C17: once every start_stream, stop_stream and get_active_streams call has
\* returned, get_active_streams() returns exactly the cameras that hold a slot.
C17_ActiveStreamsReadIsCurrent == Quiescent => ActiveStreamsRead = active_streams

\* C18: no cache failure reaches a caller: with the cache not answering a read falls
\* back to its source (get gave None), a read returns its error value (the except
\* branch) only when the Store raised, and save_detection_result reports True for
\* every detection it has committed, the invalidation having failed or not.
C18_CacheFailureNeverRaised ==
    [][/\ Len(detections') > Len(detections) => saved' = "True"
       /\ \A t \in Threads :
             /\ (pc[t] = "gd_cache" /\ pc'[t] # pc[t] /\ ~cacheUp) => pc'[t] = "gd_load"
             /\ (Returns(t) /\ result'[t] = "ReadError") => ~dbUp]_vars

\* C18 witness: save_detection_result has reported True while the cache was not
\* answering, and the listing entry it could not delete is still there, a detection short.
C18_Witness ==
    /\ saved = "True" /\ ~cacheUp
    /\ cache["results"] # <<>> /\ Len(cache["results"][1]) < Len(detections)

\* C19: a get_detection_results read that is not served from the cache returns the
\* value its Store query loaded, whether or not storing it in the cache succeeds,
\* which is the value the uncached read (use_cache=False) returns at that query.
C19_MissReturnsLoadedValue ==
    [][\A t \in Threads :
          /\ (pc[t] = "gd_fill" /\ Returns(t)) => got'[t] = loaded[t]
          /\ (pc[t] = "gd_load" /\ pc'[t] # pc[t] /\ dbUp) =>
                 IF use_cache[t] THEN loaded'[t] = <<detections>>
                 ELSE Returns(t) /\ got'[t] = <<detections>>]_vars

\* C19 witness: a cached read has returned the loaded listing, one detection long at
\* least, with nothing stored in the cache, which was not answering.
C19_Witness ==
    \E t \in Threads :
        /\ pc[t] = "idle" /\ result[t] = "Loaded" /\ use_cache[t]
        /\ got[t] = <<detections>> /\ detections # <<>>
        /\ ~cacheUp /\ cache["results"] = <<>>

\* C20: every DetectionSchedule that is persisted, and every tick loop that is
\* started, comes from a request that passes validation: a non-empty list of at most
\* MaxDetectionCameras camera ids, a duration within 1..120, and every camera id the
\* id of a camera that existed when the request was handled.
C20_OnlyValidRequestsPersist ==
    \A s \in SchedIds :
        /\ lpc[s] # "none" => schedules[s].status # "none"
        /\ schedules[s].status # "none" =>
               /\ schedules[s].camera_ids # {}
               /\ Cardinality(schedules[s].camera_ids) <= MaxDetectionCameras
               /\ schedules[s].duration >= 1 /\ schedules[s].duration <= 120
               /\ unknown[s] = {}

\* C21: schedule_detection decides whether the cameras of a request exist from the
\* Store, whatever the cache holds: with the Store answering, the ids it takes as
\* existing in this state are exactly the ids of the rows of the cameras table.
C21_ExistenceDecidedFromStore ==
    dbUp => \A cams \in SUBSET CamIds :
                (cams \subseteq AllCameras) <=> (cams \subseteq camerasTable)

\* C22: a schedule that is not cancelled and whose loop raises nothing leaves the loop
\* once its deadline has come, and not before start + duration, and is then written
\* completed with end_time the time of that write.  (The deadline is taken within the
\* hours the clock of the model runs.)
C22_LoopCompletesAtDeadline ==
    /\ \A s \in SchedIds :
           (lpc[s] = "while" /\ deadline[s] <= MaxTime) ~>
               (lpc[s] = "exit" /\ schedules[s].status = "completed"
                                /\ schedules[s].end_time # NoTime)
    /\ [](\A s \in SchedIds :
             lpc[s] \in {"final_read", "final_commit", "exit"} =>
                 /\ now >= deadline[s]
                 /\ now >= schedules[s].start_time + schedules[s].duration)
    /\ [][\A s \in SchedIds :
             (lpc[s] # "exit" /\ lpc'[s] = "exit") =>
                 /\ schedules'[s].status = "completed"
                 /\ schedules'[s].end_time = now]_vars

\* C22 witness: a loop has run batches that saved a detection, has left at its
\* deadline and has written completed and the time of the write.
C22_Witness ==
    \E s \in SchedIds :
        /\ lpc[s] = "exit" /\ now >= deadline[s] /\ detections # <<>>
        /\ schedules[s].status = "completed" /\ schedules[s].end_time = now

\* C23: a loop that an exception has ended does not leave its schedule active: when
\* the loop thread has finished, the stored status is not active any more (it is error
\* where the loop took its except branch).
C23_FailedLoopLeavesError ==
    \A s \in SchedIds : lpc[s] = "exit" => schedules[s].status # "active"

\* C24: a detection write that fails during a tick moves the schedule to error: a
\* schedule whose tick had save_detection_result fail (it returned False) is not
\* written completed.
C24_FailedWriteEndsInError ==
    saved = "False" => \A s \in SchedIds : schedules[s].status # "completed"

\* C25: a DetectionSchedule has end_time set exactly when its status is terminal
\* (completed, error or cancelled).
C25_EndTimeIffTerminal ==
    \A s \in SchedIds :
        schedules[s].status # "none" =>
            (schedules[s].end_time # NoTime <=> schedules[s].status \in Terminal)

\* the step hands a batch of s to the executor / a batch call of s has not returned
BatchStarts(s) == \E c \in Cameras : task[s][c] # "queued" /\ task'[s][c] = "queued"
BatchInFlight(s) == lpc[s] = "batch_wait" \/ \E c \in Cameras : task[s][c] # "none"

\* C26: the ticks of one schedule are sequential: a batch is started only when the
\* batch call of the tick before has returned, by completion or at its deadline.
C26_TicksAreSequential ==
    [][\A s \in SchedIds : BatchStarts(s) => ~BatchInFlight(s)]_vars

\* C26 witness: the batch of a later tick is being waited for after an earlier batch
\* returned at its deadline, a call of the earlier batch still running.
C26_Witness ==
    \E s \in SchedIds :
        /\ lpc[s] = "batch_wait"
        /\ \E c \in Cameras : orphans[s][c] > 0
        /\ \E c \in Cameras : task[s][c] \in Outstanding

\* C27 as stated: no batch of a schedule is started once its stored status is not
\* active, nor once its deadline has come.
C27_NoBatchAfterStatusWrite ==
    [][\A s \in SchedIds :
          BatchStarts(s) => (schedules[s].status = "active" /\ now < deadline[s])]_vars

\* C27: a tick starts its batch only after its own while test found the deadline not
\* reached and its own re-read of the row from the Store, made after that test, found
\* status active; once a re-read has found another status no batch is started again.
\* (A status written, or a deadline reached, between the re-read and the dispatch
\* stops the ticks after this one, not the batch of this one.)
C27_NoBatchAfterStatusObserved ==
    [][\A s \in SchedIds :
          /\ (lpc[s] = "while" /\ lpc'[s] = "read") => now < deadline[s]
          /\ (lpc[s] = "read" /\ lpc'[s] = "batch") => schedules[s].status = "active"
          /\ (lpc[s] = "read" /\ lpc'[s] # "read" /\ schedules[s].status # "active") =>
                 (seen'[s] = schedules[s].status /\ lpc'[s] = "final_read")
          /\ BatchStarts(s) => (lpc[s] = "batch" /\ seen[s] = "active")]_vars

\* C27 witness: a loop has left before its deadline because its re-read found the
\* schedule cancelled.
C27_Witness ==
    \E s \in SchedIds :
        /\ seen[s] = "cancelled" /\ lpc[s] = "final_read"
        /\ now < deadline[s]

\* C28: detection records are append-only: no operation removes or changes a
\* detection that has been persisted; the table only grows at its end.
C28_DetectionsAppendOnly ==
    [][/\ Len(detections') >= Len(detections)
       /\ SubSeq(detections', 1, Len(detections)) = detections]_vars

\* C29: every camera id of an active DetectionSchedule and every camera_id of a
\* StreamSession row is the id of a row of the cameras table.
C29_ReferencesExist ==
    /\ \A s \in SchedIds :
           schedules[s].status = "active" => schedules[s].camera_ids \subseteq camerasTable
    /\ \A c \in CamIds : sessions[c] # <<>> => c \in camerasTable

\* C30: a camera that delete_camera has deleted holds no slot in the active-stream
\* set and has no StreamSession with status active.
C30_DeletedCameraHasNoStream ==
    \A c \in Cameras \ camerasTable :
        c \notin active_streams /\ ActiveSessions(c) = {}

\* the loop of s takes a step that raises, or its except branch
LoopFails(s) ==
    \/ lpc[s] # "except" /\ lpc'[s] = "except"
    \/ lpc[s] = "except" /\ lpc'[s] # "except"

\* C31: a failure inside the tick loop of one schedule changes no other schedule (its
\* status, end_time, camera_ids) and does not move or stop any other schedule's loop.
C31_LoopFailureIsLocal ==
    [][\A s \in SchedIds :
          LoopFails(s) =>
              \A o \in SchedIds \ {s} :
                  /\ schedules'[o] = schedules[o]
                  /\ lpc'[o] = lpc[o] /\ deadline'[o] = deadline[o]]_vars

\* C31 witness: the loop of one schedule has failed and written error while the other
\* schedule is active with its loop inside a tick.
C31_Witness ==
    \E s \in SchedIds : \E o \in SchedIds \ {s} :
        /\ lpc[s] = "exit" /\ schedules[s].status = "error"
        /\ schedules[o].status = "active" /\ lpc[o] \in {"batch", "sleep"}

\* C32: a camera's detection failure and a batch timeout are not surfaced to the
\* schedule: a per-camera call that fails changes no schedule, the batch call returns
\* to the loop (it does not raise) with the schedule still active and unchanged, and
\* the loop goes on from its sleep to the next while test.
C32_FailureAndTimeoutNotSurfaced ==
    [][\A s \in SchedIds :
          /\ (\E c \in Cameras : task[s][c] = "running" /\ task'[s][c] = "failed") =>
                 (schedules' = schedules /\ lpc' = lpc)
          /\ (lpc[s] = "batch_wait" /\ lpc'[s] # "batch_wait") =>
                 /\ lpc'[s] = "sleep"
                 /\ schedules'[s] = schedules[s] /\ schedules[s].status = "active"
          /\ (lpc[s] = "sleep" /\ lpc'[s] # "sleep") =>
                 /\ lpc'[s] = "while"
                 /\ schedules'[s] = schedules[s] /\ schedules[s].status = "active"]_vars

\* C32 witness: after a tick whose batch timed out (a call of it is still running) the
\* schedule is active and its loop is at the while test of the next tick.
C32_Witness ==
    \E s \in SchedIds :
        /\ lpc[s] = "while" /\ schedules[s].status = "active"
        /\ \E c \in Cameras : orphans[s][c] > 0

C34_CompletedWithinOneTick ==
    \A s \in SchedIds :
        schedules[s].status = "completed" =>
            schedules[s].end_time <=
                schedules[s].start_time + schedules[s].duration * UnitsPerMinute + SleepTime

\* the step is the loop of s publishing the results of its tick (socketio.emit for
\* each, then the sleep)
Publishes(s) == lpc[s] = "sleep" /\ lpc'[s] = "while" /\ results[s] # <<>>

\* C35: a face_detected event is published only for a detection that has been
\* persisted: when a tick publishes its results, every camera it publishes for has a
\* detection row in the Store.
C35_PublishedOnlyIfPersisted ==
    [][\A s \in SchedIds :
          Publishes(s) =>
              \A i \in 1..Len(results[s]) :
                  \E j \in 1..Len(detections) : detections[j] = results[s][i]]_vars

\* C36: every detection a batch persists is published by its tick: when the batch
\* call returns, by completion or by timeout, every camera whose call has saved a
\* detection is in the results the loop publishes, and a call the batch abandoned
\* persists nothing afterwards.
C36_PersistedIsPublished ==
    [][\A s \in SchedIds :
          /\ BatchReturns(s) =>
                 \A c \in Cameras : task[s][c] = "detected" => Reported(s, c)
          /\ \A c \in Cameras :
                 orphans'[s][c] < orphans[s][c] => detections' = detections]_vars

\* a per-camera call of s, of the current batch or abandoned by an earlier one, returns
CallReturns(s, c) ==
    \/ orphans'[s][c] < orphans[s][c]
    \/ task[s][c] = "running" /\ task'[s][c] \in Outcomes

\* C37: no detection is written for a schedule whose status is terminal: a
\* per-camera call that returns after the schedule has finished persists nothing.
C37_NoDetectionAfterTerminal ==
    [][\A s \in SchedIds : \A c \in Cameras :
          (schedules[s].status \in Terminal /\ CallReturns(s, c)) =>
              detections' = detections]_vars

\* C38: after any create_camera and delete_camera calls, create_camera with an ip no
\* camera has succeeds with an id no camera has: the id it would assign in this state
\* is not the id of a row of the cameras table.
C38_NextCameraIdIsFresh ==
    (dbUp /\ Cardinality(camerasTable) < Len(CamList)) => NextCameraId \notin camerasTable

\* C39: with a warm cache get_detection_results(page, per_page) returns the items and
\* the total that the Store returns for that page and per_page.
C39_CachedPageMatchesPerPage ==
    [][\A t \in Threads :
          (pc[t] = "pd_cache" /\ Returns(t)) => got'[t] = <<PageOf(per_page[t])>>]_vars
====
